---- MODULE Spec2Model ----
(***************************************************************************)
(* State-machine model of src/warehouse_system.py: the WarehouseController *)
(* (bin registry, best-fit binary search, conveyor queue, truck stack,     *)
(* truck optimizer) with the StorageBin and Package models.                *)
(*                                                                         *)
(* Python indices are kept 0-based inside the algorithms (low, high, mid,  *)
(* idx); a TLA+ sequence is 1-based, so element k of a Python list is      *)
(* s[k + 1].  A bin reference is the 1-based position of the bin in the    *)
(* registry, NoBin standing for None.                                      *)
(*                                                                         *)
(* The database is outside the controller.  What a step hands to it is an  *)
(* output: `emitted` holds the INSERT statements into the shipment_logs    *)
(* table (the event sink) that the latest step executed, `updated` the     *)
(* UPDATE statements on the bins table that it executed; which rows a      *)
(* statement matches is the table's affair.  What a step reads is an input:*)
(* the rows of the bins table that load_inventory fetches.  `printed`      *)
(* holds the console lines of the latest step, `raised` the exception that *)
(* left the latest call.                                                   *)
(***************************************************************************)
EXTENDS Integers, Sequences, FiniteSets, TLC

VARIABLES
    bins,            \* WarehouseController.bins: the registry, a list of StorageBin
    conveyor,        \* WarehouseController.conveyor: FIFO queue of Package
    truck_stack,     \* WarehouseController.truck_stack: LIFO list of Package
    pc,              \* position of the controller: "idle", or inside run_conveyor
    pkg,             \* run_conveyor's local pkg
    target_bin,      \* run_conveyor's local target_bin
    seeded,          \* the bins table holds rows that seed_database inserted
    pending,         \* those rows are in the open transaction, not committed
    dropped,         \* the bins table does not exist
    ret,             \* value returned by the latest call
    raised,          \* exception that propagated out of the latest call
    emitted,         \* INSERTs into shipment_logs executed by the latest step
    updated,         \* UPDATEs of the bins table executed by the latest step
    printed,         \* console lines of the latest step
    calls,           \* history of the load_truck / undo_last_load calls, and
                     \* of a call of load_inventory with the rows it fetched
    cargo_list,      \* optimize_truck_space argument packages
    max_cap,         \* optimize_truck_space argument max_cap
    optimized_load,  \* optimize_truck_space result
    opt_pc           \* "ready" before the optimizer has run, "done" after

vars == <<bins, conveyor, truck_stack, pc, pkg, target_bin, seeded, pending,
          dropped, ret, raised, emitted, updated, printed, calls, cargo_list, max_cap,
          optimized_load, opt_pc>>

conveyor_vars ==
    <<bins, conveyor, pc, pkg, target_bin, seeded, pending, dropped>>
truck_vars == <<truck_stack, calls>>
optimizer_vars == <<cargo_list, max_cap, optimized_load, opt_pc>>

----------------------------------------------------------------------------
\* Bounds of the model.

MaxBins == 3
MaxCap == 2
MaxSize == 2
MaxQueue == 2
MaxCalls == 5
MaxTruckPkgs == 3
MaxCargo == 3
MaxCargoSize == 6
MaxTruckCap == 10
MaxTruckCalls == 2

----------------------------------------------------------------------------
\* Data.

\* None, as a bin reference and as a bin id.
NoBin == 0

\* None, as a package.
NoPkg == [tracking_id |-> 0, size |-> 0]

\* Package(tracking_id, size, destination); the destination is carried
\* through and never read.
Package(tracking_id, size) == [tracking_id |-> tracking_id, size |-> size]

\* StorageBin(bin_id, capacity, location_code): used_space starts at 0.
StorageBin(bin_id, capacity, location_code) ==
    [bin_id |-> bin_id, capacity |-> capacity,
     location_code |-> location_code, used_space |-> 0]

\* Variant of available_space that does not subtract the used space.
available_space_unused(b) == b.capacity

\* StorageBin.available_space
available_space(b) == b.capacity - b.used_space

\* Variant of occupy_space_raises that tests the usage before the amount is
\* added.
occupy_space_raises_before_add(b, amount) == b.used_space > b.capacity

\* StorageBin.occupy_space: the condition under which it raises
\* ValueError("Bin Full").
occupy_space_raises(b, amount) == b.used_space + amount > b.capacity

\* Variant of occupy_space that takes the amount off the capacity.
occupy_space_consume(b, amount) == [b EXCEPT !.capacity = @ - amount]

\* Variant of occupy_space that assigns the amount instead of adding it.
occupy_space_assign(b, amount) == [b EXCEPT !.used_space = amount]

\* StorageBin.occupy_space: the bin after a call that does not raise.
occupy_space(b, amount) == [b EXCEPT !.used_space = @ + amount]

\* StorageBin.__lt__
lt(a, b) == a.capacity < b.capacity

----------------------------------------------------------------------------
\* load_inventory.

\* Variant of sort_insert that puts b in front of the elements of its own
\* capacity.
sort_insert_before_equal(s, b) ==
    LET k == Cardinality({i \in 1..Len(s) : lt(s[i], b)})
    IN  SubSeq(s, 1, k) \o <<b>> \o SubSeq(s, k + 1, Len(s))

\* list.sort(): a stable sort by __lt__.  insert puts b behind every
\* element of the sorted list s that is not greater than b.
sort_insert(s, b) ==
    LET k == Cardinality({i \in 1..Len(s) : ~lt(b, s[i])})
    IN  SubSeq(s, 1, k) \o <<b>> \o SubSeq(s, k + 1, Len(s))

RECURSIVE sort(_)
sort(s) ==
    IF s = <<>> THEN <<>>
    ELSE sort_insert(sort(SubSeq(s, 1, Len(s) - 1)), s[Len(s)])

\* One StorageBin per fetched row, with the row's usage, then sorted.
load_inventory(rows) ==
    sort([i \in 1..Len(rows) |->
            [StorageBin(rows[i].bin_id, rows[i].capacity, rows[i].location_code)
                EXCEPT !.used_space = rows[i].current_usage]])

----------------------------------------------------------------------------
\* find_bin_binary_search.

\* Variant of fits that leaves out the remaining-space test.
fits_capacity_only(curr, p) == curr.capacity >= p.size

\* The test of line 105.
fits(curr, p) == curr.capacity >= p.size /\ available_space(curr) >= p.size

\* Variant of search that goes on to the right of a midpoint that passes
\* the test.
RECURSIVE search_right_on_fit(_, _, _, _, _)
search_right_on_fit(bs, p, low, high, best_fit) ==
    IF low <= high
    THEN LET mid == (low + high) \div 2
             curr == bs[mid + 1]
         IN  IF fits(curr, p)
             THEN search_right_on_fit(bs, p, mid + 1, high, mid + 1)
             ELSE search_right_on_fit(bs, p, mid + 1, high, best_fit)
    ELSE best_fit

\* Variant of search that keeps the first bin it has recorded.
RECURSIVE search_keep_first(_, _, _, _, _)
search_keep_first(bs, p, low, high, best_fit) ==
    IF low <= high
    THEN LET mid == (low + high) \div 2
             curr == bs[mid + 1]
         IN  IF fits(curr, p)
             THEN search_keep_first(bs, p, low, mid - 1,
                                    IF best_fit = NoBin THEN mid + 1 ELSE best_fit)
             ELSE search_keep_first(bs, p, mid + 1, high, best_fit)
    ELSE best_fit

\* Variant of search that narrows to the left of a midpoint that fails the
\* test.
RECURSIVE search_left_on_miss(_, _, _, _, _)
search_left_on_miss(bs, p, low, high, best_fit) ==
    IF low <= high
    THEN LET mid == (low + high) \div 2
             curr == bs[mid + 1]
         IN  IF fits(curr, p)
             THEN search_left_on_miss(bs, p, low, mid - 1, mid + 1)
             ELSE search_left_on_miss(bs, p, low, mid - 1, best_fit)
    ELSE best_fit

\* The while loop, from the loop state (low, high, best_fit).
RECURSIVE search(_, _, _, _, _)
search(bs, p, low, high, best_fit) ==
    IF low <= high
    THEN LET mid == (low + high) \div 2
             curr == bs[mid + 1]
         IN  IF fits(curr, p)
             THEN search(bs, p, low, mid - 1, mid + 1)
             ELSE search(bs, p, mid + 1, high, best_fit)
    ELSE best_fit

find_bin_binary_search(bs, p) == search(bs, p, 0, Len(bs) - 1, NoBin)

----------------------------------------------------------------------------
\* The database.

\* The outcomes of a statement and its commit: both succeed; execute()
\* raises, so that nothing is written; or execute() succeeds and commit()
\* raises, so that what was written is not committed.
DbOutcomes == {"ok", "execute fails", "commit fails"}

\* The outcomes of a statement on the bins table: while the table does not
\* exist, execute() raises (no such table: bins).
BinsOutcomes == IF dropped THEN {"execute fails"} ELSE DbOutcomes

\* What the bins table holds, and whether it holds it uncommitted.
Table == [seeded |-> seeded, pending |-> pending]

\* A failure either leaves the open transaction of the connection open
\* (database is locked) or has sqlite roll it back (disk I/O error, disk
\* full).  With nothing pending the two leave the same table.
Rollbacks(t, db) == IF db = "ok" \/ ~t.pending THEN {FALSE} ELSE BOOLEAN

\* The table after a statement and its commit, lines 158-159 and 165-167:
\* a commit that succeeds commits whatever the connection's transaction
\* held, rows of an earlier seed_database whose commit failed included; a
\* rollback removes them.
transaction(t, db, rb) ==
    IF db = "ok"
    THEN [t EXCEPT !.pending = FALSE]
    ELSE IF rb /\ t.pending
         THEN [seeded |-> FALSE, pending |-> FALSE]
         ELSE t

\* A console line.
Line(text, tracking_id) == [text |-> text, tracking_id |-> tracking_id]

\* update_bin_db: the UPDATE statements the call executes, each as the
\* bin_id it selects and the current_usage it sets.  (Which rows of the
\* table the statement matches is the table's affair.)
update_bin_db(bin_obj, db) ==
    IF db # "execute fails"
    THEN <<[bin_id |-> bin_obj.bin_id, current_usage |-> bin_obj.used_space]>>
    ELSE <<>>

\* update_bin_db catches nothing: a failure of either statement leaves it.
update_bin_db_raises(db) == db # "ok"

\* Variant of log_action that writes the status 'STORED' whatever it is
\* given.
log_action_stored(tracking_id, bin_id, status, db) ==
    IF db # "execute fails"
    THEN <<[tracking_id |-> tracking_id, bin_id |-> bin_id, status |-> "STORED"]>>
    ELSE <<>>

\* log_action: the rows the call inserts.  The except of line 168 does not
\* roll back, so the row is inserted unless the INSERT itself fails.
log_action(tracking_id, bin_id, status, db) ==
    IF db # "execute fails"
    THEN <<[tracking_id |-> tracking_id, bin_id |-> bin_id, status |-> status]>>
    ELSE <<>>

\* log_action: a failure of the INSERT or of the commit is caught and
\* printed.
log_action_prints(db) ==
    IF db = "ok" THEN <<>> ELSE <<Line("Logging failed", 0)>>

----------------------------------------------------------------------------
\* optimize_truck_space.

\* Variant of solve that skips a package only when it does not fit.
RECURSIVE solve_greedy(_, _, _, _, _, _)
solve_greedy(packages, cap, idx, current_combo, current_size, st) ==
    LET st1 == IF current_size > st.max_filled
               THEN [max_filled |-> current_size, best_combo |-> current_combo]
               ELSE st
    IN  IF idx = Len(packages)
        THEN st1
        ELSE LET p == packages[idx + 1]
             IN  IF current_size + p.size <= cap
                 THEN solve_greedy(packages, cap, idx + 1, Append(current_combo, p),
                                   current_size + p.size, st1)
                 ELSE solve_greedy(packages, cap, idx + 1, current_combo,
                                   current_size, st1)

\* Variant of solve that tests the running size before the package is added.
RECURSIVE solve_late_check(_, _, _, _, _, _)
solve_late_check(packages, cap, idx, current_combo, current_size, st) ==
    LET st1 == IF current_size > st.max_filled
               THEN [max_filled |-> current_size, best_combo |-> current_combo]
               ELSE st
    IN  IF idx = Len(packages)
        THEN st1
        ELSE LET p == packages[idx + 1]
                 st2 == IF current_size <= cap
                        THEN solve_late_check(packages, cap, idx + 1,
                                              Append(current_combo, p),
                                              current_size + p.size, st1)
                        ELSE st1
             IN  CHOOSE r \in {solve_late_check(packages, cap, idx + 1, current_combo,
                                                current_size, s) : s \in {st2}} : TRUE

\* Variant of solve that records a combination whenever its size is not
\* below the best size, so that the last of equal combinations is kept.
RECURSIVE solve_keep_last(_, _, _, _, _, _)
solve_keep_last(packages, cap, idx, current_combo, current_size, st) ==
    LET st1 == IF current_size >= st.max_filled
               THEN [max_filled |-> current_size, best_combo |-> current_combo]
               ELSE st
    IN  IF idx = Len(packages)
        THEN st1
        ELSE LET p == packages[idx + 1]
                 st2 == IF current_size + p.size <= cap
                        THEN solve_keep_last(packages, cap, idx + 1,
                                             Append(current_combo, p),
                                             current_size + p.size, st1)
                        ELSE st1
             IN  CHOOSE r \in {solve_keep_last(packages, cap, idx + 1, current_combo,
                                               current_size, s) : s \in {st2}} : TRUE

\* solve(idx, current_combo, current_size), with the two nonlocal variables
\* of the closure carried as the record st = [best_combo, max_filled]; the
\* value is st when the call returns.
RECURSIVE solve(_, _, _, _, _, _)
solve(packages, cap, idx, current_combo, current_size, st) ==
    LET st1 == IF current_size > st.max_filled
               THEN [max_filled |-> current_size, best_combo |-> current_combo]
               ELSE st
    IN  IF idx = Len(packages)
        THEN st1
        ELSE LET p == packages[idx + 1]
                 \* Option 1: take the package (if it fits)
                 st2 == IF current_size + p.size <= cap
                        THEN solve(packages, cap, idx + 1,
                                   Append(current_combo, p),
                                   current_size + p.size, st1)
                        ELSE st1
             \* Option 2: skip the package.  (s is st2, evaluated before
             \* the call as the code has it, not inside the call.)
             IN  CHOOSE r \in {solve(packages, cap, idx + 1, current_combo,
                                     current_size, s) : s \in {st2}} : TRUE

optimize_truck_space(packages, cap) ==
    solve(packages, cap, 0, <<>>, 0,
          [max_filled |-> 0, best_combo |-> <<>>]).best_combo

----------------------------------------------------------------------------
\* Inputs.

Sizes == 1..MaxSize

\* The packages offered to the conveyor: one per size, its tracking id the
\* size.
Packages == {Package(s, s) : s \in Sizes}

\* The packages offered to the truck; the stack never reads a size.
TruckPackages == {Package(t, t) : t \in 1..MaxTruckPkgs}

\* Rows of the bins table, as SELECT delivers them: positive capacity,
\* usage within the capacity, bin_id the PRIMARY KEY, in rowid order, each
\* bin at a location code of its own.
CapacityUsage == {cu \in (1..MaxCap) \X (0..MaxCap) : cu[2] <= cu[1]}

RowsOf(n) ==
    {[i \in 1..n |-> [bin_id |-> i, capacity |-> f[i][1],
                      current_usage |-> f[i][2], location_code |-> i]] :
        f \in [1..n -> CapacityUsage]}

Tables == UNION {RowsOf(n) : n \in 0..MaxBins}

\* The rows as fetchall() may deliver them to load_inventory: the SELECT
\* has no ORDER BY, so the rows of a table come in an order that the bin
\* source chooses.
Orders(n) == {f \in [1..n -> 1..n] : \A i, j \in 1..n : i # j => f[i] # f[j]}

\* The rows of the table t in the order f.
Delivery(t, f) == [i \in 1..Len(t) |-> t[f[i]]]

\* The tables as the data of seed_database has them: every bin empty, the
\* rows from the smallest capacity to the largest.
SeedTables ==
    {t \in Tables :
        /\ \A i \in 1..Len(t) : t[i].current_usage = 0
        /\ \A i, j \in 1..Len(t) : i < j => t[i].capacity < t[j].capacity}

\* The rows of a seed in the bins table, with usages that UPDATEs have
\* written.
SeedRows ==
    {t \in Tables :
        /\ t # <<>>
        /\ \A i, j \in 1..Len(t) : i < j => t[i].capacity < t[j].capacity}

\* The bin objects that a caller hands to update_bin_db.
BinObjects ==
    {[StorageBin(1, 1, 1) EXCEPT !.used_space = u] : u \in 0..1}

\* The statuses that a caller hands to log_action.
LogStatuses == {"LOADED_ON_TRUCK", "AUDIT"}

\* The rows that seed_database inserts, lines 214-220, the location codes
\* A1, A2, B1, B2 and C1 as 1 to 5.
SeedData ==
    <<[bin_id |-> 1, capacity |-> 50, current_usage |-> 0, location_code |-> 1],
      [bin_id |-> 2, capacity |-> 100, current_usage |-> 0, location_code |-> 2],
      [bin_id |-> 3, capacity |-> 150, current_usage |-> 0, location_code |-> 3],
      [bin_id |-> 4, capacity |-> 200, current_usage |-> 0, location_code |-> 4],
      [bin_id |-> 5, capacity |-> 500, current_usage |-> 0, location_code |-> 5]>>

\* The incoming packages of the main script, lines 232-236: PKG_SMALL,
\* PKG_HUGE and PKG_MID as the tracking ids 1, 2 and 3.
Incoming == <<Package(1, 45), Package(2, 120), Package(3, 30)>>

\* The candidate list of the main script, BOX_A, BOX_B and BOX_C as the
\* tracking ids 1, 2 and 3, and the limit it gives the optimizer.
TruckCargo == <<Package(1, 50), Package(2, 60), Package(3, 40)>>

TruckLimit == 100

\* The candidate lists given to the optimizer: distinct packages, the
\* tracking id the position in the list; sizes include 0 and a negative.
CargoLists ==
    UNION {{[i \in 1..n |-> Package(i, f[i])] : f \in [1..n -> -1..MaxCargoSize]} :
              n \in 0..MaxCargo}

----------------------------------------------------------------------------
\* The state after WarehouseController() : __init__ and connect_db.

Init ==
    /\ bins = <<>>
    /\ conveyor = <<>>
    /\ truck_stack = <<>>
    /\ pc = "idle"
    /\ pkg = NoPkg
    /\ target_bin = NoBin
    /\ seeded = FALSE
    /\ pending = FALSE
    /\ dropped = FALSE
    /\ ret = NoPkg
    /\ raised = "none"
    /\ emitted = <<>>
    /\ updated = <<>>
    /\ printed = <<>>
    /\ calls = <<>>
    /\ cargo_list = <<>>
    /\ max_cap = 0
    /\ optimized_load = <<>>
    /\ opt_pc = "ready"

\* The same, with the arguments of a call of optimize_truck_space chosen.
InitOptimize ==
    /\ bins = <<>>
    /\ conveyor = <<>>
    /\ truck_stack = <<>>
    /\ pc = "idle"
    /\ pkg = NoPkg
    /\ target_bin = NoBin
    /\ seeded = FALSE
    /\ pending = FALSE
    /\ dropped = FALSE
    /\ ret = NoPkg
    /\ raised = "none"
    /\ emitted = <<>>
    /\ updated = <<>>
    /\ printed = <<>>
    /\ calls = <<>>
    /\ cargo_list \in CargoLists
    /\ max_cap \in -1..MaxTruckCap
    /\ optimized_load = <<>>
    /\ opt_pc = "ready"

----------------------------------------------------------------------------
\* Operations on the registry and the conveyor.

\* The outcomes of seed_database: those of its INSERT and commit, and the
\* SELECT of load_inventory raising after the commit.
SeedOutcomes == DbOutcomes \cup {"select fails"}

\* seed_database, for a non-empty list of rows as the one of lines 214-220.
\* It catches nothing.  On an empty table (connect_db has left it so) the
\* INSERTs succeed; then the commit, load_inventory and the print follow.
\* When a statement or the commit raises, the exception leaves the call:
\* the registry stays and nothing is printed.  After a failed commit the
\* rows stay in the open transaction of the connection, unless it was
\* rolled back; so do the rows that executemany had inserted before the
\* row whose INSERT failed; after a failed SELECT the rows are committed.
\* On a table that holds these rows the INSERT raises IntegrityError,
\* bin_id being the PRIMARY KEY, and leaves the transaction as it is; any
\* other failure of the INSERT may roll the transaction back.  While the
\* table does not exist the INSERT raises.
seed_database(data, db) ==
    /\ data # <<>>
    /\ IF ~seeded /\ ~dropped /\ db = "ok"
       THEN /\ seeded' = TRUE
            /\ pending' = FALSE
            /\ bins' = load_inventory(data)
            /\ raised' = "none"
            /\ printed' = <<Line("Database seeded with empty bins.", 0)>>
       ELSE /\ CASE dropped ->
                        seeded' = seeded /\ pending' = pending
                   [] seeded /\ db = "execute fails" ->
                        \E rb \in Rollbacks(Table, db) :
                           /\ seeded' = transaction(Table, db, rb).seeded
                           /\ pending' = transaction(Table, db, rb).pending
                   [] seeded /\ db # "execute fails" ->
                        seeded' = seeded /\ pending' = pending
                   [] ~seeded /\ ~dropped /\ db = "execute fails" ->
                        \E kept \in IF Len(data) = 1 THEN {FALSE} ELSE BOOLEAN :
                           seeded' = kept /\ pending' = kept
                   [] ~seeded /\ ~dropped /\ db = "commit fails" ->
                        \E kept \in BOOLEAN : seeded' = kept /\ pending' = kept
                   [] ~seeded /\ ~dropped /\ db = "select fails" ->
                        seeded' = TRUE /\ pending' = FALSE
            /\ bins' = bins
            /\ raised' = "sqlite3.Error"
            /\ printed' = <<>>
    /\ ret' = NoPkg
    /\ emitted' = <<>>
    /\ updated' = <<>>
    /\ UNCHANGED <<conveyor, pc, pkg, target_bin>>
    /\ UNCHANGED truck_vars
    /\ UNCHANGED dropped
    /\ UNCHANGED optimizer_vars

\* load_inventory, lines 58-71, for the rows that fetchall() delivers: the
\* registry is replaced by their bins, sorted.  When the SELECT raises, the
\* exception leaves the call before line 64 and the registry stays; the
\* SELECT commits nothing.
load_inventory_run(rows, db) ==
    /\ pc = "idle"
    /\ IF db = "ok" /\ ~dropped
       THEN /\ bins' = load_inventory(rows)
            /\ raised' = "none"
            /\ UNCHANGED <<seeded, pending>>
       ELSE /\ bins' = bins
            /\ raised' = "sqlite3.Error"
            /\ \E rb \in Rollbacks(Table, "execute fails") :
                  /\ seeded' = transaction(Table, "execute fails", rb).seeded
                  /\ pending' = transaction(Table, "execute fails", rb).pending
    /\ ret' = NoPkg
    /\ emitted' = <<>>
    /\ printed' = <<>>
    /\ updated' = <<>>
    /\ UNCHANGED <<conveyor, pc, pkg, target_bin, truck_stack, dropped>>
    /\ UNCHANGED optimizer_vars

add_to_conveyor(p) ==
    /\ pc = "idle"
    /\ conveyor' = Append(conveyor, p)
    /\ ret' = NoPkg
    /\ raised' = "none"
    /\ emitted' = <<>>
    /\ printed' = <<>>
    /\ updated' = <<>>
    /\ UNCHANGED <<bins, pc, pkg, target_bin, seeded, pending, dropped>>
    /\ UNCHANGED truck_vars
    /\ UNCHANGED optimizer_vars

\* A direct call of StorageBin.occupy_space on the bin at position i.
occupy_space_call(i, amount) ==
    /\ IF occupy_space_raises(bins[i], amount)
       THEN /\ raised' = "Bin Full"
            /\ bins' = bins
       ELSE /\ raised' = "none"
            /\ bins' = [bins EXCEPT ![i] = occupy_space(@, amount)]
    /\ ret' = NoPkg
    /\ emitted' = <<>>
    /\ printed' = <<>>
    /\ updated' = <<>>
    /\ UNCHANGED <<conveyor, pc, pkg, target_bin, seeded, pending, dropped>>
    /\ UNCHANGED truck_vars
    /\ UNCHANGED optimizer_vars

\* run_conveyor is entered: line 77.
run_conveyor_begin ==
    /\ pc = "idle"
    /\ pc' = "loop"
    /\ ret' = NoPkg
    /\ raised' = "none"
    /\ emitted' = <<>>
    /\ printed' = <<Line("[Conveyor] Processing items", Len(conveyor))>>
    /\ updated' = <<>>
    /\ UNCHANGED <<bins, conveyor, pkg, target_bin, seeded, pending, dropped>>
    /\ UNCHANGED truck_vars
    /\ UNCHANGED optimizer_vars

\* Variant of run_conveyor_get that takes the newest package of the queue.
run_conveyor_get_newest ==
    /\ pc = "loop"
    /\ conveyor # <<>>
    /\ pkg' = conveyor[Len(conveyor)]
    /\ conveyor' = SubSeq(conveyor, 1, Len(conveyor) - 1)
    /\ target_bin' = find_bin_binary_search(bins, conveyor[Len(conveyor)])
    /\ pc' = "found"
    /\ emitted' = <<>>
    /\ printed' = <<>>
    /\ updated' = <<>>
    /\ UNCHANGED <<bins, seeded, pending, dropped, ret, raised>>
    /\ UNCHANGED truck_vars
    /\ UNCHANGED optimizer_vars

\* Lines 79-81: the loop test holds, the head is taken and searched for.
run_conveyor_get ==
    /\ pc = "loop"
    /\ conveyor # <<>>
    /\ pkg' = Head(conveyor)
    /\ conveyor' = Tail(conveyor)
    /\ target_bin' = find_bin_binary_search(bins, Head(conveyor))
    /\ pc' = "found"
    /\ emitted' = <<>>
    /\ printed' = <<>>
    /\ updated' = <<>>
    /\ UNCHANGED <<bins, seeded, pending, dropped, ret, raised>>
    /\ UNCHANGED truck_vars
    /\ UNCHANGED optimizer_vars

\* Variant of run_conveyor_store in which a package without a bin ends the
\* run, the packages behind it left in the queue.
run_conveyor_store_abort ==
    /\ pc = "found"
    /\ IF target_bin # NoBin
       THEN /\ pc' = "loop"
            /\ UNCHANGED <<pkg, target_bin>>
            /\ IF occupy_space_raises(bins[target_bin], pkg.size)
               THEN /\ bins' = bins
                    /\ updated' = <<>>
                    /\ emitted' = <<>>
                    /\ printed' = <<Line("Error storing", pkg.tracking_id)>>
                    /\ UNCHANGED <<seeded, pending>>
               ELSE /\ bins' = [bins EXCEPT ![target_bin] = occupy_space(@, pkg.size)]
                    /\ \E upd \in BinsOutcomes : \E rb \in Rollbacks(Table, upd) :
                          /\ updated' = update_bin_db(bins'[target_bin], upd)
                          /\ seeded' = transaction(Table, upd, rb).seeded
                          /\ pending' = transaction(Table, upd, rb).pending
                          /\ IF update_bin_db_raises(upd)
                             THEN /\ emitted' = <<>>
                                  /\ printed' = <<Line("Error storing", pkg.tracking_id)>>
                             ELSE \E db \in DbOutcomes :
                                  /\ emitted' = log_action(pkg.tracking_id,
                                                           bins[target_bin].bin_id,
                                                           "STORED", db)
                                  /\ printed' = log_action_prints(db)
                                                   \o <<Line("Stored", pkg.tracking_id)>>
       ELSE /\ pc' = "idle"
            /\ pkg' = NoPkg
            /\ target_bin' = NoBin
            /\ bins' = bins
            /\ updated' = <<>>
            /\ emitted' = <<>>
            /\ printed' = <<Line("FAIL: No suitable bin", pkg.tracking_id)>>
            /\ UNCHANGED <<seeded, pending>>
    /\ UNCHANGED <<conveyor, ret, raised>>
    /\ UNCHANGED truck_vars
    /\ UNCHANGED dropped
    /\ UNCHANGED optimizer_vars

\* Lines 82-92, one package.  With a bin (lines 84-88): occupy_space, then
\* update_bin_db, then log_action, then the line "Stored"; an exception of
\* occupy_space or of update_bin_db ends the try at the statement that
\* raised it and "Error storing" is printed (lines 89-90), the used space
\* that occupy_space has increased staying increased.  The commit of
\* update_bin_db, when it succeeds, leaves nothing pending, so a failure
\* of log_action after it has no rows of the bins table to roll back.
\* Without a bin (line 92) the failure is printed.
run_conveyor_store ==
    /\ pc = "found"
    /\ pc' = "loop"
    /\ IF target_bin # NoBin
       THEN IF occupy_space_raises(bins[target_bin], pkg.size)
            THEN /\ bins' = bins
                 /\ updated' = <<>>
                 /\ emitted' = <<>>
                 /\ printed' = <<Line("Error storing", pkg.tracking_id)>>
                 /\ UNCHANGED <<seeded, pending>>
            ELSE /\ bins' = [bins EXCEPT ![target_bin] = occupy_space(@, pkg.size)]
                 /\ \E upd \in BinsOutcomes : \E rb \in Rollbacks(Table, upd) :
                       /\ updated' = update_bin_db(bins'[target_bin], upd)
                       /\ seeded' = transaction(Table, upd, rb).seeded
                       /\ pending' = transaction(Table, upd, rb).pending
                       /\ IF update_bin_db_raises(upd)
                          THEN /\ emitted' = <<>>
                               /\ printed' = <<Line("Error storing", pkg.tracking_id)>>
                          ELSE \E db \in DbOutcomes :
                               /\ emitted' = log_action(pkg.tracking_id,
                                                        bins[target_bin].bin_id,
                                                        "STORED", db)
                               /\ printed' = log_action_prints(db)
                                                \o <<Line("Stored", pkg.tracking_id)>>
       ELSE /\ bins' = bins
            /\ updated' = <<>>
            /\ emitted' = <<>>
            /\ printed' = <<Line("FAIL: No suitable bin", pkg.tracking_id)>>
            /\ UNCHANGED <<seeded, pending>>
    /\ UNCHANGED <<conveyor, pkg, target_bin, ret, raised>>
    /\ UNCHANGED truck_vars
    /\ UNCHANGED dropped
    /\ UNCHANGED optimizer_vars

\* Line 79: the loop test fails and run_conveyor returns; its locals end.
run_conveyor_return ==
    /\ pc = "loop"
    /\ conveyor = <<>>
    /\ pc' = "idle"
    /\ pkg' = NoPkg
    /\ target_bin' = NoBin
    /\ emitted' = <<>>
    /\ printed' = <<>>
    /\ updated' = <<>>
    /\ UNCHANGED <<bins, conveyor, seeded, pending, dropped, ret, raised>>
    /\ UNCHANGED truck_vars
    /\ UNCHANGED optimizer_vars

\* The registry and the conveyor: the bins are seeded, from any table,
\* and then used by add_to_conveyor, run_conveyor and direct calls of
\* StorageBin.occupy_space.  (The truck and the optimizer are steps of
\* NextWarehouse.)
Next ==
    \/ pc = "idle" /\ ~seeded
          /\ \E data \in Tables, db \in SeedOutcomes : seed_database(data, db)
    \/ Len(conveyor) < MaxQueue /\ \E p \in Packages : add_to_conveyor(p)
    \/ pc = "idle" /\ \E i \in 1..Len(bins), amount \in Sizes : occupy_space_call(i, amount)
    \/ run_conveyor_begin
    \/ run_conveyor_get
    \/ run_conveyor_store
    \/ run_conveyor_return

Spec == Init /\ [][Next]_vars

\* The next statement of run_conveyor: inside the call exactly one of the
\* three is enabled, and no other operation is.
run_conveyor_step ==
    \/ run_conveyor_get
    \/ run_conveyor_store
    \/ run_conveyor_return

\* run_conveyor is synchronous and single-threaded: once entered, its loop
\* runs on until the queue is empty and it returns.
FairSpec == Spec /\ WF_vars(run_conveyor_step)

\* The inbound part of the main script, lines 228-242: the registry is
\* seeded with the rows of seed_database, packages of the incoming list
\* are put on the conveyor, as many as the list holds at a time, and the
\* conveyor is run.
NextInbound ==
    \/ pc = "idle" /\ \E db \in SeedOutcomes : seed_database(SeedData, db)
    \/ Len(conveyor) < Len(Incoming)
          /\ \E i \in 1..Len(Incoming) : add_to_conveyor(Incoming[i])
    \/ run_conveyor_begin
    \/ run_conveyor_get
    \/ run_conveyor_store
    \/ run_conveyor_return

SpecInbound == Init /\ [][NextInbound]_vars

FairSpecInbound == SpecInbound /\ WF_vars(run_conveyor_step)

----------------------------------------------------------------------------
\* Operations on the truck stack.

\* list.append
push(stack, p) == Append(stack, p)

\* list.pop(): the list that is left, and the element returned.
pop_rest(stack) == SubSeq(stack, 1, Len(stack) - 1)

\* Variant of pop_item that returns the oldest element, as pop(0) would.
pop_item_first(stack) == stack[1]

pop_item(stack) == stack[Len(stack)]

\* load_truck and undo_last_load: the stack changes, then log_action.  Its
\* commit, when it succeeds, also commits rows that a seed_database whose
\* commit failed has left pending; when log_action fails, sqlite may roll
\* them back.
load_truck(p) ==
    /\ pc = "idle"
    /\ Len(calls) < MaxCalls
    /\ truck_stack' = push(truck_stack, p)
    /\ \E db \in DbOutcomes : \E rb \in Rollbacks(Table, db) :
          /\ emitted' = log_action(p.tracking_id, NoBin, "LOADED_ON_TRUCK", db)
          /\ printed' = log_action_prints(db) \o <<Line("Loaded onto truck", p.tracking_id)>>
          /\ seeded' = transaction(Table, db, rb).seeded
          /\ pending' = transaction(Table, db, rb).pending
    /\ ret' = NoPkg
    /\ raised' = "none"
    /\ calls' = Append(calls, [op |-> "load_truck", arg |-> p, ret |-> NoPkg])
    /\ updated' = <<>>
    /\ UNCHANGED <<bins, conveyor, pc, pkg, target_bin>>
    /\ UNCHANGED dropped
    /\ UNCHANGED optimizer_vars

\* Variant of undo_last_load without the emptiness test of line 119: pop()
\* on an empty list raises IndexError.
undo_last_load_unguarded ==
    /\ pc = "idle"
    /\ Len(calls) < MaxCalls
    /\ IF truck_stack # <<>>
       THEN /\ truck_stack' = pop_rest(truck_stack)
            /\ ret' = pop_item(truck_stack)
            /\ raised' = "none"
            /\ \E db \in DbOutcomes : \E rb \in Rollbacks(Table, db) :
                  /\ emitted' = log_action(pop_item(truck_stack).tracking_id, NoBin,
                                           "REMOVED_FROM_TRUCK", db)
                  /\ printed' = log_action_prints(db)
                                   \o <<Line("Undo: Removed from truck",
                                             pop_item(truck_stack).tracking_id)>>
                  /\ seeded' = transaction(Table, db, rb).seeded
                  /\ pending' = transaction(Table, db, rb).pending
       ELSE /\ truck_stack' = truck_stack
            /\ ret' = NoPkg
            /\ raised' = "IndexError"
            /\ emitted' = <<>>
            /\ printed' = <<>>
            /\ UNCHANGED <<seeded, pending>>
    /\ calls' = Append(calls, [op |-> "undo_last_load", arg |-> NoPkg, ret |-> ret'])
    /\ updated' = <<>>
    /\ UNCHANGED <<bins, conveyor, pc, pkg, target_bin>>
    /\ UNCHANGED dropped
    /\ UNCHANGED optimizer_vars

\* Variant of undo_last_load in which log_action does not catch the failure
\* of the INSERT or of the commit: the package is popped, the exception
\* leaves the call and nothing is returned.
undo_last_load_log_raises ==
    /\ pc = "idle"
    /\ Len(calls) < MaxCalls
    /\ IF truck_stack # <<>>
       THEN /\ truck_stack' = pop_rest(truck_stack)
            /\ \E db \in DbOutcomes : \E rb \in Rollbacks(Table, db) :
                  /\ ret' = IF db = "ok" THEN pop_item(truck_stack) ELSE NoPkg
                  /\ raised' = IF db = "ok" THEN "none" ELSE "sqlite3.Error"
                  /\ emitted' = log_action(pop_item(truck_stack).tracking_id, NoBin,
                                           "REMOVED_FROM_TRUCK", db)
                  /\ printed' = log_action_prints(db)
                                   \o IF db = "ok"
                                      THEN <<Line("Undo: Removed from truck",
                                                  pop_item(truck_stack).tracking_id)>>
                                      ELSE <<>>
                  /\ seeded' = transaction(Table, db, rb).seeded
                  /\ pending' = transaction(Table, db, rb).pending
       ELSE /\ truck_stack' = truck_stack
            /\ ret' = NoPkg
            /\ raised' = "none"
            /\ emitted' = <<>>
            /\ printed' = <<Line("Truck is empty, nothing to undo.", 0)>>
            /\ UNCHANGED <<seeded, pending>>
    /\ calls' = Append(calls, [op |-> "undo_last_load", arg |-> NoPkg, ret |-> ret'])
    /\ updated' = <<>>
    /\ UNCHANGED <<bins, conveyor, pc, pkg, target_bin>>
    /\ UNCHANGED dropped
    /\ UNCHANGED optimizer_vars

undo_last_load ==
    /\ pc = "idle"
    /\ Len(calls) < MaxCalls
    /\ IF truck_stack # <<>>
       THEN /\ truck_stack' = pop_rest(truck_stack)
            /\ ret' = pop_item(truck_stack)
            /\ \E db \in DbOutcomes : \E rb \in Rollbacks(Table, db) :
                  /\ emitted' = log_action(pop_item(truck_stack).tracking_id, NoBin,
                                           "REMOVED_FROM_TRUCK", db)
                  /\ printed' = log_action_prints(db)
                                   \o <<Line("Undo: Removed from truck",
                                             pop_item(truck_stack).tracking_id)>>
                  /\ seeded' = transaction(Table, db, rb).seeded
                  /\ pending' = transaction(Table, db, rb).pending
       ELSE /\ truck_stack' = truck_stack
            /\ ret' = NoPkg
            /\ emitted' = <<>>
            /\ printed' = <<Line("Truck is empty, nothing to undo.", 0)>>
            /\ UNCHANGED <<seeded, pending>>
    /\ raised' = "none"
    /\ calls' = Append(calls, [op |-> "undo_last_load", arg |-> NoPkg, ret |-> ret'])
    /\ updated' = <<>>
    /\ UNCHANGED <<bins, conveyor, pc, pkg, target_bin>>
    /\ UNCHANGED dropped
    /\ UNCHANGED optimizer_vars

NextTruck ==
    \/ \E p \in TruckPackages : load_truck(p)
    \/ undo_last_load

SpecTruck == Init /\ [][NextTruck]_vars

----------------------------------------------------------------------------
\* A call of optimize_truck_space(cargo_list, max_cap), as in line 257.

optimize_call ==
    /\ opt_pc = "ready"
    /\ optimized_load' = optimize_truck_space(cargo_list, max_cap)
    /\ opt_pc' = "done"
    /\ ret' = NoPkg
    /\ raised' = "none"
    /\ emitted' = <<>>
    /\ printed' = <<>>
    /\ updated' = <<>>
    /\ UNCHANGED <<cargo_list, max_cap>>
    /\ UNCHANGED conveyor_vars
    /\ UNCHANGED truck_vars

NextOptimize == optimize_call

SpecOptimize == InitOptimize /\ [][NextOptimize]_vars

----------------------------------------------------------------------------
\* The controller with its public operations, called one after the other in
\* any order: those that the main script calls (the registry is seeded with
\* empty bins; between two runs of the conveyor the optimizer is run on the
\* candidate list, and packages of the list it returned are loaded on the
\* truck and taken off), and connect_db, load_inventory, update_bin_db and
\* log_action called by a caller of its own.

\* optimize_truck_space(packages, cap), called between other operations.
optimize_step(packages, cap) ==
    /\ pc = "idle"
    /\ opt_pc = "ready"
    /\ cargo_list' = packages
    /\ max_cap' = cap
    /\ optimized_load' = optimize_truck_space(packages, cap)
    /\ opt_pc' = "done"
    /\ ret' = NoPkg
    /\ raised' = "none"
    /\ emitted' = <<>>
    /\ printed' = <<>>
    /\ updated' = <<>>
    /\ UNCHANGED conveyor_vars
    /\ UNCHANGED truck_vars

\* The outcomes of connect_db: it returns; sqlite3.connect raises (line
\* 33); DROP TABLE raises (line 36, database is locked); a CREATE TABLE
\* raises (lines 38-54); the commit raises (line 55).
ConnectOutcomes ==
    {"ok", "connect fails", "drop fails", "create fails", "commit fails"}

\* connect_db called again, lines 32-56.  It catches nothing and leaves the
\* registry as it is.  Line 33 rebinds self.conn: rows that the old
\* connection held uncommitted are not seen by the new one, and are rolled
\* back when the old one is closed.  The statements of lines 36-54 are
\* committed one by one: after the DROP the table is gone until line 47
\* has created it again, empty.
connect_db(out) ==
    /\ pc = "idle"
    /\ CASE out = "ok" ->
               seeded' = FALSE /\ pending' = FALSE /\ dropped' = FALSE
         [] out = "connect fails" ->
               UNCHANGED <<seeded, pending, dropped>>
         [] out = "drop fails" ->
               seeded' = (seeded /\ ~pending) /\ pending' = FALSE
                  /\ dropped' = dropped
         [] out = "create fails" ->
               seeded' = FALSE /\ pending' = FALSE /\ dropped' = TRUE
         [] out = "commit fails" ->
               seeded' = FALSE /\ pending' = FALSE /\ dropped' = FALSE
    /\ raised' = IF out = "ok" THEN "none" ELSE "sqlite3.Error"
    /\ ret' = NoPkg
    /\ emitted' = <<>>
    /\ printed' = <<>>
    /\ updated' = <<>>
    /\ UNCHANGED <<bins, conveyor, pc, pkg, target_bin>>
    /\ UNCHANGED truck_vars
    /\ UNCHANGED optimizer_vars

\* The rows that the SELECT of load_inventory may fetch: none from an empty
\* table; from a seeded one the rows of a seed, with the usages that the
\* UPDATEs executed so far have left.
TableRows == IF seeded THEN SeedRows ELSE {<<>>}

\* load_inventory called again.
load_inventory_again(rows, db) ==
    /\ load_inventory_run(rows, db)
    /\ UNCHANGED calls

\* update_bin_db called with a bin object, lines 156-160: it catches
\* nothing.
update_bin_db_call(bin_obj, db) ==
    /\ pc = "idle"
    /\ updated' = update_bin_db(bin_obj, db)
    /\ raised' = IF update_bin_db_raises(db) THEN "sqlite3.Error" ELSE "none"
    /\ \E rb \in Rollbacks(Table, db) :
          /\ seeded' = transaction(Table, db, rb).seeded
          /\ pending' = transaction(Table, db, rb).pending
    /\ ret' = NoPkg
    /\ emitted' = <<>>
    /\ printed' = <<>>
    /\ UNCHANGED <<bins, conveyor, pc, pkg, target_bin, dropped>>
    /\ UNCHANGED truck_vars
    /\ UNCHANGED optimizer_vars

\* log_action called with an event, lines 162-169.
log_action_call(tracking_id, bin_id, status, db) ==
    /\ pc = "idle"
    /\ emitted' = log_action(tracking_id, bin_id, status, db)
    /\ printed' = log_action_prints(db)
    /\ raised' = "none"
    /\ \E rb \in Rollbacks(Table, db) :
          /\ seeded' = transaction(Table, db, rb).seeded
          /\ pending' = transaction(Table, db, rb).pending
    /\ ret' = NoPkg
    /\ updated' = <<>>
    /\ UNCHANGED <<bins, conveyor, pc, pkg, target_bin, dropped>>
    /\ UNCHANGED truck_vars
    /\ UNCHANGED optimizer_vars

NextWarehouse ==
    \/ pc = "idle"
          /\ \E data \in SeedTables, db \in SeedOutcomes : seed_database(data, db)
    \/ \E out \in ConnectOutcomes : connect_db(out)
    \/ \E rows \in TableRows, db \in {"ok", "execute fails"} :
          load_inventory_again(rows, db)
    \/ \E b \in BinObjects, db \in BinsOutcomes : update_bin_db_call(b, db)
    \/ \E status \in LogStatuses, db \in DbOutcomes :
          log_action_call(1, NoBin, status, db)
    \/ Len(conveyor) < MaxQueue /\ \E p \in Packages : add_to_conveyor(p)
    \/ run_conveyor_begin
    \/ run_conveyor_get
    \/ run_conveyor_store
    \/ run_conveyor_return
    \/ optimize_step(TruckCargo, TruckLimit)
    \/ Len(calls) < MaxTruckCalls
          /\ \E i \in 1..Len(optimized_load) : load_truck(optimized_load[i])
    \/ Len(calls) < MaxTruckCalls /\ undo_last_load

SpecWarehouse == Init /\ [][NextWarehouse]_vars

----------------------------------------------------------------------------
\* load_inventory on its own, for every table that the database may hold
\* and every order of the fetched rows.

\* A call of load_inventory, recorded with the rows it fetched.
load_inventory_call(rows, db) ==
    /\ load_inventory_run(rows, db)
    /\ calls' = Append(calls, [op |-> "load_inventory",
                               arg |-> IF raised' = "none" THEN rows ELSE <<>>,
                               ret |-> NoPkg])

NextLoad ==
    pc = "idle" /\ calls = <<>> /\ \E n \in 0..MaxBins :
        \E t \in RowsOf(n), f \in Orders(n), db \in {"ok", "execute fails"} :
            load_inventory_call(Delivery(t, f), db)

SpecLoad == Init /\ [][NextLoad]_vars

----------------------------------------------------------------------------
\* Properties of the best-fit search.  In a state with pc = "found",
\* target_bin is what find_bin_binary_search returned for pkg on bins.

\* A bin qualifies for a size: capacity and remaining space both suffice.
Qualifies(b, size) == b.capacity >= size /\ b.capacity - b.used_space >= size

QualifyingBins(size) == {i \in 1..Len(bins) : Qualifies(bins[i], size)}

\* C1: whenever find_bin_binary_search returns a bin, its capacity is at
\* most the capacity of every bin of the registry that qualifies.
C1_Minimality ==
    (pc = "found" /\ target_bin # NoBin) =>
        \A i \in QualifyingBins(pkg.size) :
            bins[target_bin].capacity <= bins[i].capacity

\* C2: find_bin_binary_search returns None exactly when no bin of the
\* registry qualifies.
C2_NoneIffNoneQualifies ==
    pc = "found" => (target_bin = NoBin <=> QualifyingBins(pkg.size) = {})

\* C3: find_bin_binary_search never returns a bin whose capacity or whose
\* remaining space is below the package size.
C3_Soundness ==
    (pc = "found" /\ target_bin # NoBin) =>
        /\ target_bin \in 1..Len(bins)
        /\ ~(bins[target_bin].capacity < pkg.size)
        /\ ~(available_space(bins[target_bin]) < pkg.size)

\* C3 witness: a bin was returned from a registry that also holds a bin
\* large enough by capacity but without the space left.
C3_Witness ==
    /\ pc = "found"
    /\ target_bin # NoBin
    /\ \E i \in 1..Len(bins) :
          bins[i].capacity >= pkg.size /\ available_space(bins[i]) < pkg.size

----------------------------------------------------------------------------
\* C4: in every reachable state every bin has 0 <= used_space <= capacity.
C4_UsageInvariant ==
    \A i \in 1..Len(bins) :
        0 <= bins[i].used_space /\ bins[i].used_space <= bins[i].capacity

\* C4 witness: the conveyor has just stored a package into a bin that was
\* partly used, filling it exactly.
C4_Witness ==
    /\ pc = "loop"
    /\ target_bin # NoBin
    /\ printed # <<>>
    /\ printed[Len(printed)].text = "Stored"
    /\ bins[target_bin].used_space = bins[target_bin].capacity
    /\ pkg.size < bins[target_bin].capacity

----------------------------------------------------------------------------
\* Properties of the optimizer.  In a state with opt_pc = "done",
\* optimized_load is what optimize_truck_space(cargo_list, max_cap) returned.

RECURSIVE TotalSize(_)
TotalSize(list) ==
    IF list = <<>> THEN 0
    ELSE list[1].size + TotalSize(Tail(list))

\* The total size of the packages of cargo_list at the positions S.
RECURSIVE PositionsTotal(_)
PositionsTotal(S) ==
    IF S = {} THEN 0
    ELSE LET i == CHOOSE j \in S : TRUE
         IN  cargo_list[i].size + PositionsTotal(S \ {i})

\* The totals of the subsets of the input that do not exceed max_cap.
FeasibleTotals ==
    {PositionsTotal(S) : S \in {T \in SUBSET (1..Len(cargo_list)) :
                                    PositionsTotal(T) <= max_cap}}

PositiveSizes == \A i \in 1..Len(cargo_list) : cargo_list[i].size > 0

\* out is made of packages of cargo_list at strictly increasing positions
\* (the tracking id of an input package is its position).
IsSubsequence(out) ==
    \A k \in 1..Len(out) :
        /\ out[k].tracking_id \in 1..Len(cargo_list)
        /\ cargo_list[out[k].tracking_id] = out[k]
        /\ k > 1 => out[k - 1].tracking_id < out[k].tracking_id

\* Scenario B in units of 10: sizes [50,60,40], limit 100.
ScenarioB ==
    /\ cargo_list = <<Package(1, 5), Package(2, 6), Package(3, 4)>>
    /\ max_cap = 10

\* C5: for packages of positive sizes, the total of the returned list is
\* the maximum of the totals of the subsets of the input that do not exceed
\* max_cap; in Scenario B the packages of sizes 60 and 40 are returned.
C5_Optimality ==
    (opt_pc = "done" /\ PositiveSizes) =>
        /\ FeasibleTotals # {} =>
              /\ TotalSize(optimized_load) \in FeasibleTotals
              /\ \A t \in FeasibleTotals : t <= TotalSize(optimized_load)
        /\ ScenarioB => optimized_load = <<Package(2, 6), Package(3, 4)>>

\* C5 witness: the optimizer has run on Scenario B.
C5_Witness == opt_pc = "done" /\ ScenarioB

\* C6 as claimed: for every input list and every max_cap the returned list
\* is a sub-sequence of the input whose total size is <= max_cap.
C6_FeasibleForEveryCap ==
    opt_pc = "done" =>
        /\ IsSubsequence(optimized_load)
        /\ TotalSize(optimized_load) <= max_cap

\* C6 amended: the returned list is a sub-sequence of the input; its total
\* size is <= max_cap when max_cap >= 0, and it is empty when max_cap < 0.
C6_Feasible ==
    opt_pc = "done" =>
        /\ IsSubsequence(optimized_load)
        /\ max_cap >= 0 => TotalSize(optimized_load) <= max_cap
        /\ max_cap < 0 => optimized_load = <<>>

\* C6 witness: a returned list of two packages that leaves out the first
\* input package, which alone would have fitted.
C6_Witness ==
    /\ opt_pc = "done"
    /\ max_cap >= 0
    /\ Len(optimized_load) = 2
    /\ optimized_load[1].tracking_id > 1
    /\ cargo_list[1].size > 0
    /\ cargo_list[1].size <= max_cap

----------------------------------------------------------------------------
\* Properties of the truck stack.  calls is the history of the load_truck
\* and undo_last_load calls made so far, each with its argument and the
\* value it returned.

\* The packages loaded in the history h and not yet undone, in load order:
\* an undo takes away the latest one still there, if any.
RECURSIVE NotYetUndone(_)
NotYetUndone(h) ==
    IF h = <<>> THEN <<>>
    ELSE LET before == NotYetUndone(SubSeq(h, 1, Len(h) - 1))
             last == h[Len(h)]
         IN  IF last.op = "load_truck" THEN before \o <<last.arg>>
             ELSE IF before = <<>> THEN <<>>
             ELSE SubSeq(before, 1, Len(before) - 1)

Prefix(k) == SubSeq(calls, 1, k)

\* Scenario C: load A, B, C, then undo twice.
ScenarioC ==
    /\ Len(calls) = 5
    /\ calls[1].op = "load_truck" /\ calls[1].arg = Package(1, 1)
    /\ calls[2].op = "load_truck" /\ calls[2].arg = Package(2, 2)
    /\ calls[3].op = "load_truck" /\ calls[3].arg = Package(3, 3)
    /\ calls[4].op = "undo_last_load"
    /\ calls[5].op = "undo_last_load"

\* C7: the stack is the loaded packages not yet undone, in load order; an
\* undo on a non-empty stack returns the latest of them; a load followed at
\* once by an undo returns the loaded package and restores the stack; in
\* Scenario C the undos return C, then B, and leave [A].
C7_StackLIFO ==
    /\ truck_stack = NotYetUndone(calls)
    /\ \A k \in 1..Len(calls) :
          (calls[k].op = "undo_last_load" /\ NotYetUndone(Prefix(k - 1)) # <<>>) =>
              LET before == NotYetUndone(Prefix(k - 1))
              IN  calls[k].ret = before[Len(before)]
    /\ (Len(calls) >= 2 /\ calls[Len(calls) - 1].op = "load_truck"
            /\ calls[Len(calls)].op = "undo_last_load") =>
          /\ ret = calls[Len(calls) - 1].arg
          /\ truck_stack = NotYetUndone(Prefix(Len(calls) - 2))
    /\ ScenarioC =>
          /\ calls[4].ret = Package(3, 3)
          /\ calls[5].ret = Package(2, 2)
          /\ truck_stack = <<Package(1, 1)>>

\* C7 witness: Scenario C has been played.
C7_Witness == ScenarioC /\ ret = Package(2, 2)

\* The step is a call of undo_last_load.
UndoStep ==
    /\ Len(calls') = Len(calls) + 1
    /\ calls'[Len(calls')].op = "undo_last_load"

\* C8: undo_last_load on an empty stack returns None, raises nothing,
\* leaves the stack and the rest of the controller's state as they were,
\* and hands no event to the event sink.
C8_EmptyUndo ==
    [][(UndoStep /\ truck_stack = <<>>) =>
          /\ ret' = NoPkg
          /\ raised' = "none"
          /\ truck_stack' = truck_stack
          /\ UNCHANGED <<bins, conveyor, pc, pkg, target_bin, seeded, pending, dropped>>
          /\ emitted' = <<>>]_vars

\* C8 witness: the latest call was an undo on a stack emptied by an
\* earlier undo.
C8_Witness ==
    /\ Len(calls) >= 3
    /\ calls[Len(calls)].op = "undo_last_load"
    /\ calls[Len(calls) - 1].op = "undo_last_load"
    /\ calls[Len(calls) - 1].ret # NoPkg
    /\ NotYetUndone(Prefix(Len(calls) - 1)) = <<>>
    /\ ret = NoPkg
    /\ truck_stack = <<>>
    /\ printed = <<Line("Truck is empty, nothing to undo.", 0)>>

----------------------------------------------------------------------------
\* Properties of run_conveyor.

InQueue(p) == \E k \in 1..Len(conveyor) : conveyor[k] = p

\* A package leaves the queue only as the oldest one, into an attempt.
LeavesOnlyIntoAttempt ==
    conveyor' # conveyor =>
        \/ /\ pc = "idle" /\ pc' = "idle"
           /\ \E p \in Packages : conveyor' = Append(conveyor, p)
        \/ /\ pc = "loop" /\ pc' = "found"
           /\ conveyor # <<>>
           /\ pkg' = Head(conveyor)
           /\ conveyor' = Tail(conveyor)

\* The queue changes only by a package put behind the others while no run
\* is on, or by the oldest one taken into an attempt.
QueueOrder ==
    conveyor' # conveyor =>
        \/ /\ pc = "idle" /\ pc' = "idle"
           /\ Len(conveyor') = Len(conveyor) + 1
           /\ SubSeq(conveyor', 1, Len(conveyor)) = conveyor
        \/ /\ pc = "loop" /\ pc' = "found"
           /\ conveyor # <<>>
           /\ pkg' = Head(conveyor)
           /\ conveyor' = Tail(conveyor)

\* What the steps of the conveyor do, one package at a time.
ConveyorStepOrder ==
    /\ QueueOrder
    \* an attempt begins with the oldest package and searches the registry
    \* as the earlier attempts left it
    /\ pc' = "found" =>
          /\ pc = "loop"
          /\ conveyor # <<>>
          /\ pkg' = Head(conveyor)
          /\ conveyor' = Tail(conveyor)
          /\ bins' = bins
          /\ target_bin' = find_bin_binary_search(bins, pkg')
    \* the attempt completes in the next step, before another begins: the
    \* usage of the bin found grows by the size and the event is handed
    \* over (unless the database fails: the INSERT of the event, or the
    \* UPDATE of the usage before it); nothing is taken from the queue
    /\ pc = "found" =>
          /\ pc' = "loop"
          /\ conveyor' = conveyor
          /\ pkg' = pkg
          /\ target_bin # NoBin =>
                /\ bins' = [bins EXCEPT ![target_bin].used_space = @ + pkg.size]
                /\ \/ emitted' = <<[tracking_id |-> pkg.tracking_id,
                                    bin_id |-> bins[target_bin].bin_id,
                                    status |-> "STORED"]>>
                   \/ /\ emitted' = <<>>
                      /\ printed'[1] = Line("Logging failed", 0)
                   \/ /\ emitted' = <<>>
                      /\ printed' = <<Line("Error storing", pkg.tracking_id)>>
    \* run_conveyor returns only with the queue empty
    /\ pc # "idle" /\ pc' = "idle" => conveyor = <<>> /\ conveyor' = <<>>

\* The used space of every bin of the registry, in its order.
UsedSpace(bs) == [i \in 1..Len(bs) |-> bs[i].used_space]

\* Scenario A, attempt by attempt: on the bins 50, 100, 150, 200 and 500
\* the package of size 45 goes to the empty bin 50; with that usage left,
\* the package of size 120 goes to bin 150; with both usages left, the
\* package of size 30 goes to bin 100, bin 50 having 5 left.
ScenarioA_Attempts ==
    pc = "found" /\ bins # <<>> =>
        /\ pkg = Incoming[1] /\ UsedSpace(bins) = <<0, 0, 0, 0, 0>> =>
              /\ target_bin # NoBin
              /\ bins[target_bin].capacity = 50
              /\ UsedSpace(bins') = <<45, 0, 0, 0, 0>>
        /\ pkg = Incoming[2] /\ UsedSpace(bins) = <<45, 0, 0, 0, 0>> =>
              /\ target_bin # NoBin
              /\ bins[target_bin].capacity = 150
              /\ UsedSpace(bins') = <<45, 0, 120, 0, 0>>
        /\ pkg = Incoming[3] /\ UsedSpace(bins) = <<45, 0, 120, 0, 0>> =>
              /\ target_bin # NoBin
              /\ bins[target_bin].capacity = 100
              /\ UsedSpace(bins') = <<45, 30, 120, 0, 0>>

\* run_conveyor has been entered with the sizes 45, 120 and 30 queued in
\* that order and the five bins empty.
ScenarioA_Start ==
    /\ pc = "loop"
    /\ conveyor = Incoming
    /\ bins = load_inventory(SeedData)

\* The run has returned: 45 is in bin 50, 30 in bin 100 and 120 in bin 150.
ScenarioA_End ==
    /\ pc = "idle"
    /\ conveyor = <<>>
    /\ [i \in 1..Len(bins) |-> bins[i].capacity] = <<50, 100, 150, 200, 500>>
    /\ UsedSpace(bins) = <<45, 30, 120, 0, 0>>

\* C9: run_conveyor terminates with the conveyor empty; every package of
\* the queue is attempted, once, oldest first, each attempt completing
\* before the next begins and seeing the usage the earlier ones left.
\* (Every run returns, and by the last conjunct of ConveyorStepOrder it
\* returns with the queue empty.)  So the bins 50, 100, 150, 200 and 500,
\* empty, with the sizes 45, 120 and 30 queued in that order, end with the
\* packages in the bins 50, 150 and 100.
C9_ConveyorDrain ==
    /\ [][ConveyorStepOrder]_vars
    /\ []<>(pc = "idle")
    /\ [][ScenarioA_Attempts]_vars
    /\ ScenarioA_Start ~> ScenarioA_End

\* C9 witness: in a run on the bins seeded empty, the package of size 30
\* has just been stored in bin 100 and the loop is about to return: bin
\* 50, which it would fit by capacity, holds the 45 of an earlier package,
\* and bin 150 the 120 of another.
C9_Witness ==
    /\ pc = "loop"
    /\ conveyor = <<>>
    /\ pkg = Incoming[3]
    /\ target_bin # NoBin
    /\ bins[target_bin].capacity = 100
    /\ UsedSpace(bins) = <<45, 30, 120, 0, 0>>
    /\ emitted = <<[tracking_id |-> 3, bin_id |-> 2, status |-> "STORED"]>>
    /\ printed = <<Line("Stored", 3)>>

\* The attempt for pkg fails: no bin was found, or occupy_space raises.
StoreFails ==
    /\ pc = "found"
    /\ \/ target_bin = NoBin
       \/ /\ target_bin # NoBin
          /\ bins[target_bin].used_space + pkg.size > bins[target_bin].capacity

\* C10: when a package fails to be stored, no used space and no other
\* state of the controller changes, no STORED event is emitted, and the
\* loop goes on: the run still drains the queue, from which a package
\* leaves only into its own attempt.
C10_FailureIsolation ==
    /\ [][StoreFails =>
             /\ bins' = bins
             /\ conveyor' = conveyor
             /\ truck_stack' = truck_stack
             /\ seeded' = seeded
             /\ emitted' = <<>>
             /\ pc' = "loop"]_vars
    /\ [][LeavesOnlyIntoAttempt]_vars
    /\ StoreFails ~> (pc = "idle" /\ conveyor = <<>>)

\* C10 witness: a package has just failed for want of a bin, and another
\* is queued behind it.
C10_Witness ==
    /\ pc = "loop"
    /\ target_bin = NoBin
    /\ printed = <<Line("FAIL: No suitable bin", pkg.tracking_id)>>
    /\ conveyor # <<>>

----------------------------------------------------------------------------
\* The contract of StorageBin.occupy_space.

\* What a call of occupy_space(amount) on the bin at position i has to do.
OccupyContract(i, amount) ==
    LET b == bins[i]
    IN  /\ Len(bins') = Len(bins)
        /\ \A j \in 1..Len(bins) : j # i => bins'[j] = bins[j]
        /\ bins'[i].bin_id = b.bin_id
        /\ bins'[i].capacity = b.capacity
        /\ bins'[i].location_code = b.location_code
        /\ IF b.used_space + amount > b.capacity
           THEN /\ raised' = "Bin Full"
                /\ bins'[i].used_space = b.used_space
           ELSE /\ raised' = "none"
                /\ bins'[i].used_space = b.used_space + amount

\* C11: a call of occupy_space fails with "Bin Full" and leaves the used
\* space unchanged if used + amount > capacity; otherwise it increases the
\* used space of that bin by exactly the amount and changes nothing else of
\* the bin (capacity, id, location) nor any other bin.
\* (A call leaves pc and the queue as they are; the steps that do not are
\* set aside before the calls are gone through.)
C11_OccupyContract ==
    [][pc' = pc /\ conveyor' = conveyor =>
          \A i \in 1..Len(bins), amount \in Sizes :
              occupy_space_call(i, amount) => OccupyContract(i, amount)]_vars

\* A call has just failed on a bin that holds something and has room for a
\* smaller amount, next to a full bin.
C11_Witness ==
    /\ raised = "Bin Full"
    /\ \E i \in 1..Len(bins) :
          /\ bins[i].used_space > 0
          /\ bins[i].used_space < bins[i].capacity
    /\ \E i \in 1..Len(bins) : bins[i].used_space = bins[i].capacity

----------------------------------------------------------------------------
\* Scenario D: two bins of equal capacity, one of them without the space.

\* The registry holds exactly two bins of one capacity; the bin at position
\* i has the space for the package in hand, the other one has not.
ScenarioD(i) ==
    /\ Len(bins) = 2
    /\ bins[1].capacity = bins[2].capacity
    /\ available_space(bins[i]) >= pkg.size
    /\ available_space(bins[3 - i]) < pkg.size

\* C12: for a registry of exactly two bins of equal capacity, in either
\* order, of which one has less available space than the package needs and
\* the other has enough, find_bin_binary_search returns the bin with enough
\* available space.
C12_EqualCapacityAvailability ==
    \A i \in 1..2 : pc = "found" /\ ScenarioD(i) => target_bin = i

\* The order in which the first midpoint is the bin without the space: the
\* search has gone on to the second bin.
C12_Witness ==
    /\ pc = "found"
    /\ ScenarioD(2)
    /\ bins[1].used_space > 0
    /\ bins[2].used_space = 0
    /\ target_bin = 2

----------------------------------------------------------------------------
\* A failure of the event sink.

\* The step belongs to an operation that changes the state in memory and
\* reports it to the sink: the allocation of run_conveyor, or load_truck or
\* undo_last_load, the two that calls records here.  A caller's own call of
\* log_action is not one of them.
StateChangingStep == pc = "found" \/ calls' # calls

\* The step has called log_action, and the INSERT or the commit has failed.
LoggingFailed == printed' # <<>> /\ printed'[1] = Line("Logging failed", 0)

\* The step has called log_action, and the INSERT and the commit have
\* succeeded.
LoggingSucceeded == emitted' # <<>> /\ ~LoggingFailed

\* What an operation that calls log_action leaves in memory and returns:
\* the allocation of run_conveyor, load_truck, a successful undo_last_load.
TriggerOutcome ==
    \/ /\ pc = "found"
       /\ target_bin # NoBin
       /\ bins' = [bins EXCEPT ![target_bin].used_space = @ + pkg.size]
       /\ pc' = "loop"
       /\ printed'[Len(printed')] = Line("Stored", pkg.tracking_id)
       /\ UNCHANGED <<conveyor, truck_stack, ret>>
    \/ /\ pc = "idle"
       /\ Len(truck_stack') = Len(truck_stack) + 1
       /\ SubSeq(truck_stack', 1, Len(truck_stack)) = truck_stack
       /\ printed'[Len(printed')] =
             Line("Loaded onto truck", truck_stack'[Len(truck_stack')].tracking_id)
       /\ ret' = NoPkg
       /\ UNCHANGED <<bins, conveyor, pc>>
    \/ /\ pc = "idle"
       /\ truck_stack # <<>>
       /\ truck_stack' = SubSeq(truck_stack, 1, Len(truck_stack) - 1)
       /\ ret' = truck_stack[Len(truck_stack)]
       /\ printed'[Len(printed')] = Line("Undo: Removed from truck", ret'.tracking_id)
       /\ UNCHANGED <<bins, conveyor, pc>>

\* C13: when recording the event fails inside log_action, the operation
\* that called it finishes with the same in-memory state and return value
\* as when recording succeeds (the used space stays increased, the package
\* stays pushed, the popped package is returned), nothing is raised to the
\* caller, the failure is printed in front of the operation's own line, and
\* run_conveyor is back at its loop test.
C13_SinkFailureSwallowed ==
    [][StateChangingStep =>
          /\ LoggingFailed \/ LoggingSucceeded =>
                TriggerOutcome /\ raised' = "none"
          /\ LoggingFailed => Len(printed') = 2]_vars

\* Recording the STORED event has just failed: the package is in its bin,
\* the next one waits in the queue, and the truck is loaded.
C13_Witness ==
    /\ printed = <<Line("Logging failed", 0), Line("Stored", pkg.tracking_id)>>
    /\ emitted = <<>>
    /\ pc = "loop"
    /\ conveyor # <<>>
    /\ target_bin # NoBin
    /\ bins[target_bin].used_space >= pkg.size
    /\ truck_stack # <<>>

----------------------------------------------------------------------------
\* The tie-break of the optimizer.

\* The combinations in the order in which the depth-first traversal comes
\* to them: the combination in hand, then the traversal with the next
\* package included (if it fits), then the traversal with it skipped.
RECURSIVE Visits(_, _, _, _, _)
Visits(packages, cap, idx, combo, size) ==
    <<combo>> \o
    (IF idx = Len(packages)
     THEN <<>>
     ELSE LET p == packages[idx + 1]
          IN  (IF size + p.size <= cap
               THEN Visits(packages, cap, idx + 1, Append(combo, p), size + p.size)
               ELSE <<>>)
              \o Visits(packages, cap, idx + 1, combo, size))

Traversal == Visits(cargo_list, max_cap, 0, <<>>, 0)

\* The largest total of a combination of the traversal.
MaxVisited ==
    CHOOSE t \in {TotalSize(Traversal[k]) : k \in 1..Len(Traversal)} :
        \A k \in 1..Len(Traversal) : TotalSize(Traversal[k]) <= t

\* The first combination of the traversal with the total t.
FirstWith(t) ==
    Traversal[CHOOSE k \in 1..Len(Traversal) :
                 /\ TotalSize(Traversal[k]) = t
                 /\ \A j \in 1..(k - 1) : TotalSize(Traversal[j]) # t]

\* C14: optimize_truck_space returns the first combination, in the
\* depth-first include-then-skip traversal of the input in input order,
\* whose total is the maximum achievable total (with positive sizes, the
\* maximum over the subsets that do not exceed max_cap); a combination of
\* the same total visited later does not replace it, and a second run on
\* the same input returns the same list.
C14_FirstBestInTraversal ==
    opt_pc = "done" =>
        /\ optimized_load = FirstWith(MaxVisited)
        /\ PositiveSizes /\ FeasibleTotals # {} =>
              /\ MaxVisited \in FeasibleTotals
              /\ \A t \in FeasibleTotals : t <= MaxVisited
        /\ optimize_truck_space(cargo_list, max_cap) = optimized_load

\* A tie: the traversal comes later to another combination with the total
\* of the returned, non-empty list.
C14_Witness ==
    /\ opt_pc = "done"
    /\ PositiveSizes
    /\ optimized_load # <<>>
    /\ \E k \in 1..Len(Traversal) :
          /\ Traversal[k] # optimized_load
          /\ TotalSize(Traversal[k]) = TotalSize(optimized_load)

----------------------------------------------------------------------------
\* The order of the registry after load_inventory.

\* The bin that load_inventory makes of a fetched row.
BinOfRow(r) ==
    [bin_id |-> r.bin_id, capacity |-> r.capacity,
     location_code |-> r.location_code, used_space |-> r.current_usage]

\* The registry holds exactly the bins of the rows, each with its usage.
ExactlyDelivered(rows, registry) ==
    /\ Len(registry) = Len(rows)
    /\ \A i \in 1..Len(rows) : \E k \in 1..Len(registry) : registry[k] = BinOfRow(rows[i])

\* Ascending by (capacity, bin id).
SortedByCapacityAndId(registry) ==
    \A i, j \in 1..Len(registry) :
        i < j => \/ registry[i].capacity < registry[j].capacity
                 \/ /\ registry[i].capacity = registry[j].capacity
                    /\ registry[i].bin_id < registry[j].bin_id

\* Ascending by capacity, bins of one capacity in the order of their rows.
SortedByCapacityStable(rows, registry) ==
    /\ \A i, j \in 1..Len(registry) :
          i < j => registry[i].capacity <= registry[j].capacity
    /\ \A i, j \in 1..Len(rows) :
          i < j /\ rows[i].capacity = rows[j].capacity =>
             \E k, l \in 1..Len(registry) :
                /\ k < l
                /\ registry[k] = BinOfRow(rows[i])
                /\ registry[l] = BinOfRow(rows[j])

RowsInIdOrder(rows) ==
    \A i, j \in 1..Len(rows) : i < j => rows[i].bin_id < rows[j].bin_id

\* The rows that the call of load_inventory fetched.
FetchedRows == calls[Len(calls)].arg

\* load_inventory has been called and has returned.
Loaded == calls # <<>> /\ raised = "none"

\* C15 as claimed: after load_inventory, for whatever order the rows are
\* delivered in, the registry is sorted ascending by (capacity, bin id) and
\* holds exactly the delivered bins with their delivered usage.
C15_SortedByCapacityAndId ==
    Loaded =>
        /\ SortedByCapacityAndId(bins)
        /\ ExactlyDelivered(FetchedRows, bins)

\* C15 amended: after load_inventory the registry is sorted ascending by
\* capacity, bins of equal capacity in the order in which their rows were
\* delivered, and holds exactly the delivered bins with their delivered
\* usage; it is sorted by (capacity, bin id) when the rows are delivered in
\* ascending order of bin id.
C15_SortedByCapacityStable ==
    Loaded =>
        /\ SortedByCapacityStable(FetchedRows, bins)
        /\ ExactlyDelivered(FetchedRows, bins)
        /\ RowsInIdOrder(FetchedRows) => SortedByCapacityAndId(bins)

\* Two bins of one capacity stand in the registry against the order of
\* their ids, behind a smaller bin with a larger id.
C15_Witness ==
    /\ Loaded
    /\ ~RowsInIdOrder(FetchedRows)
    /\ Len(bins) = 3
    /\ bins[1].capacity < bins[2].capacity
    /\ bins[2].capacity = bins[3].capacity
    /\ bins[2].bin_id > bins[3].bin_id
    /\ bins[1].bin_id > bins[3].bin_id

----------------------------------------------------------------------------
\* The statuses of the events.

\* A state-changing step hands at most one event to the sink; its status is
\* 'STORED' for an allocation, loaded for a push on the truck and removed
\* for a pop.
EventStatuses(loaded, removed) ==
    StateChangingStep /\ emitted' # <<>> =>
        /\ Len(emitted') = 1
        /\ emitted'[1].status \in {"STORED", loaded, removed}
        /\ pc = "found" => emitted'[1].status = "STORED"
        /\ Len(truck_stack') > Len(truck_stack) => emitted'[1].status = loaded
        /\ Len(truck_stack') < Len(truck_stack) => emitted'[1].status = removed

\* C16 as claimed: every event handed to the event sink by a state-changing
\* action carries a status in {STORED, LOADED, REMOVED}: STORED for a
\* successful allocation, LOADED for load_truck, REMOVED for a successful
\* undo_last_load.
C16_StatusVocabulary == [][EventStatuses("LOADED", "REMOVED")]_vars

\* C16 amended: every event handed to the event sink by a state-changing
\* action carries a status in {STORED, LOADED_ON_TRUCK, REMOVED_FROM_TRUCK}:
\* STORED for a successful allocation, LOADED_ON_TRUCK for load_truck,
\* REMOVED_FROM_TRUCK for a successful undo_last_load.
C16_StatusVocabularyOfCode ==
    [][EventStatuses("LOADED_ON_TRUCK", "REMOVED_FROM_TRUCK")]_vars

\* The event of an undo has just been recorded, after an allocation and
\* with a package left on the truck.
C16_Witness ==
    /\ emitted # <<>>
    /\ emitted[1].status = "REMOVED_FROM_TRUCK"
    /\ emitted[1].tracking_id = ret.tracking_id
    /\ \E i \in 1..Len(bins) : bins[i].used_space > 0

----------------------------------------------------------------------------
\* The tie-break of the best-fit search.

\* The positions that the loop evaluates as midpoints, in the order in
\* which it comes to them, from the loop state (low, high).
RECURSIVE Midpoints(_, _, _, _)
Midpoints(bs, p, low, high) ==
    IF low <= high
    THEN LET mid == (low + high) \div 2
         IN  <<mid + 1>> \o (IF fits(bs[mid + 1], p)
                             THEN Midpoints(bs, p, low, mid - 1)
                             ELSE Midpoints(bs, p, mid + 1, high))
    ELSE <<>>

\* The midpoints of the search for the package in hand that qualify, in the
\* order in which the search comes to them.
QualifyingMidpoints ==
    SelectSeq(Midpoints(bins, pkg, 0, Len(bins) - 1),
              LAMBDA i : Qualifies(bins[i], pkg.size))

\* Several bins share the minimal qualifying capacity.
SeveralMinimalQualifying ==
    \E i, j \in QualifyingBins(pkg.size) :
        /\ i # j
        /\ bins[i].capacity = bins[j].capacity
        /\ \A k \in QualifyingBins(pkg.size) : bins[i].capacity <= bins[k].capacity

\* C17 as claimed: when several bins share the minimal qualifying capacity,
\* the returned bin is the first qualifying bin that the search has
\* evaluated as a midpoint, not one it has come to later.
C17_FirstEncountered ==
    pc = "found" /\ SeveralMinimalQualifying /\ QualifyingMidpoints # <<>> =>
        target_bin = QualifyingMidpoints[1]

\* C17 amended: the returned bin is the last qualifying bin that the search
\* has evaluated as a midpoint; every qualifying midpoint before it lies at
\* a higher position of the registry, and nothing is returned only when no
\* midpoint qualifies.
C17_LastEncountered ==
    pc = "found" =>
        LET Q == QualifyingMidpoints
        IN  IF Q = <<>>
            THEN target_bin = NoBin
            ELSE /\ target_bin = Q[Len(Q)]
                 /\ \A k \in 1..(Len(Q) - 1) : Q[k] > target_bin

\* Three bins of the minimal qualifying capacity, all of them qualifying:
\* the search has come to the middle one first and returned the first one.
C17_Witness ==
    /\ pc = "found"
    /\ SeveralMinimalQualifying
    /\ Len(bins) = 3
    /\ QualifyingMidpoints = <<2, 1>>
    /\ bins[1].capacity = bins[2].capacity
    /\ target_bin = 1

----------------------------------------------------------------------------
\* 'Bin Full' in the conveyor.

\* C18: in run_conveyor, occupy_space called on the bin that
\* find_bin_binary_search has just returned, with the size of the package
\* searched for, never raises 'Bin Full': the bin found has the room, and
\* the call adds the size to its used space.  (The except branch of line
\* 89 is still entered when update_bin_db fails.)
C18_BinFullUnreachable ==
    [][pc = "found" /\ target_bin # NoBin =>
          /\ ~(bins[target_bin].used_space + pkg.size > bins[target_bin].capacity)
          /\ bins'[target_bin].used_space = bins[target_bin].used_space + pkg.size]_vars

\* A bin that already holds something has been found for a package that
\* fills it to the brim.
C18_Witness ==
    /\ pc = "found"
    /\ target_bin # NoBin
    /\ bins[target_bin].used_space > 0
    /\ bins[target_bin].used_space + pkg.size = bins[target_bin].capacity

----------------------------------------------------------------------------
\* The life of the bins between two loads.

\* Ascending by capacity, as find_bin_binary_search needs it.
SortedByCapacity(registry) ==
    \A i, j \in 1..Len(registry) :
        i < j => registry[i].capacity <= registry[j].capacity

\* The positions of the bins that the step changes.
ChangedBins == {i \in 1..Len(bins) : bins'[i] # bins[i]}

\* The steps between two loads: of run_conveyor (and add_to_conveyor
\* before it), load_truck, undo_last_load and optimize_truck_space.
BetweenLoads ==
    \/ \E p \in Packages : add_to_conveyor(p)
    \/ run_conveyor_begin
    \/ run_conveyor_step
    \/ optimize_step(TruckCargo, TruckLimit)
    \/ \E i \in 1..Len(optimized_load) : load_truck(optimized_load[i])
    \/ undo_last_load

\* What a step after the load may do to the registry.
BinLifecycleStep ==
    /\ Len(bins') = Len(bins)
    /\ \A i \in 1..Len(bins) :
          /\ bins'[i].bin_id = bins[i].bin_id
          /\ bins'[i].capacity = bins[i].capacity
          /\ bins'[i].location_code = bins[i].location_code
          /\ bins'[i].used_space >= bins[i].used_space
    /\ Cardinality(ChangedBins) <= 1
    /\ \A i \in ChangedBins :
          /\ pc = "found"
          /\ bins'[i].used_space = bins[i].used_space + pkg.size

\* C19: across the steps of run_conveyor, load_truck, undo_last_load and
\* optimize_truck_space after a load, the bins, their order and their
\* capacities do not change, no used space decreases, and a processed
\* package changes the used space of at most one bin, by exactly its size;
\* the registry, sorted by capacity at the load, is sorted at every later
\* step.
C19_BinLifecycle ==
    [][/\ BetweenLoads => BinLifecycleStep
       /\ SortedByCapacity(bins')]_vars

\* After the load two packages have gone into two bins, the optimizer has
\* run, a package is on the truck and another has been taken off again.
C19_Witness ==
    /\ seeded
    /\ \E i, j \in 1..Len(bins) :
          i # j /\ bins[i].used_space > 0 /\ bins[j].used_space > 0
    /\ opt_pc = "done"
    /\ truck_stack = <<>>
    /\ ret # NoPkg

----------------------------------------------------------------------------
\* The best fit when qualification is monotone along the registry.

\* Every bin behind a qualifying bin qualifies too.
MonotoneQualification ==
    \A i, j \in 1..Len(bins) :
        i < j /\ Qualifies(bins[i], pkg.size) => Qualifies(bins[j], pkg.size)

AllBinsEmpty == \A i \in 1..Len(bins) : bins[i].used_space = 0

\* The midpoints of the search for the package in hand.
SearchMidpoints == Midpoints(bins, pkg, 0, Len(bins) - 1)

\* C20: for a capacity-sorted registry in which every bin behind a
\* qualifying bin qualifies too (as when all bins are empty),
\* find_bin_binary_search returns the qualifying bin of the lowest index,
\* and returns none only if no bin qualifies; the loop ends after at most
\* one evaluation per bin, every midpoint inside the registry.
C20_ExactWhenMonotone ==
    pc = "found" =>
        /\ AllBinsEmpty /\ SortedByCapacity(bins) => MonotoneQualification
        /\ MonotoneQualification /\ SortedByCapacity(bins) =>
              /\ QualifyingBins(pkg.size) # {} =>
                    /\ target_bin \in QualifyingBins(pkg.size)
                    /\ \A i \in QualifyingBins(pkg.size) : target_bin <= i
              /\ target_bin = NoBin => QualifyingBins(pkg.size) = {}
        /\ Len(SearchMidpoints) <= Len(bins)
        /\ \A k \in 1..Len(SearchMidpoints) :
              /\ SearchMidpoints[k] \in 1..Len(bins)
              /\ \A l \in 1..(k - 1) : SearchMidpoints[l] # SearchMidpoints[k]

\* Three bins, the first one too full for the package and the two behind
\* it qualifying: the search has returned the second bin.
C20_Witness ==
    /\ pc = "found"
    /\ Len(bins) = 3
    /\ MonotoneQualification
    /\ ~AllBinsEmpty
    /\ QualifyingBins(pkg.size) = {2, 3}
    /\ bins[1].capacity >= pkg.size
    /\ target_bin = 2

====
